---- MODULE Spec2Model ----
(***************************************************************************)
(* Model of the SCKM semi-supervised clustering model of src/main.rs: the  *)
(* SCKM struct (data, result, num_centers, trained), its constructor and   *)
(* the three trait methods train, same_cluster and update_data, each       *)
(* translated statement by statement.                                      *)
(*                                                                         *)
(* Two specifications share the actions.  Spec runs the calls of one       *)
(* owner one after the other (the methods take `&mut self`).  SpecConc     *)
(* interleaves the statements of two callers, the setting the busy-wait    *)
(* of update_data on self.trained is written for.                          *)
(***************************************************************************)
EXTENDS Integers, Sequences, FiniteSets

\* ---------------------------------------------------------------- bounds
Dim == 1          \* dimension of the points of a dataset
MaxPoints == 1    \* longest dataset handed to new / update_data
MaxEta == 1       \* largest eta handed to train
MaxIter == MaxEta + 2   \* the count of training_iteration calls saturates here

Callers == {"c1", "c2"}

\* ------------------------------------------------------- option<T> values
None == <<>>
Some(x) == <<x>>
unwrap(o) == o[1]

\* ------------------------------------------------------------ value types
TaskState == {"done", "ready", "pending"}
LabelEnum == {"malware", "accept"}
ConnectEnum == {"linked", "seperate"}
Trained == "Trained"

BoolVecs(n) == [1..n -> BOOLEAN]
BoolPoint == [point : BoolVecs(Dim)]
LabelBoolPoint == [data : BoolPoint, label : {None} \cup {Some(l) : l \in LabelEnum}]

\* the datasets a caller may hand over: every Vec<LabelBoolPoint> of at most
\* MaxPoints points, the empty one included
Datasets == UNION {[1..n -> LabelBoolPoint] : n \in 0..MaxPoints}
\* the vectors a caller may query: of the model's dimension and one shorter
QueryVecs == BoolVecs(Dim) \cup BoolVecs(Dim - 1)
Etas == 0..MaxEta

\* the datasets of the interleaved specification, whose subject is the order
\* of the statements and not the data: no point, one point, another point
ConcDatasets ==
  {<<>>,
   <<[data |-> [point |-> [k \in 1..Dim |-> FALSE]], label |-> Some("malware")]>>,
   <<[data |-> [point |-> [k \in 1..Dim |-> TRUE]], label |-> None]>>}

\* ------------------------------------------------------------------ JobU8
JobU8_new(new_num, new_job) == [num |-> new_num, job |-> new_job]
JobU8_make == JobU8_new(None, "ready")

\* ------------------------------------------------------------ constructor
\* `intial_result` is used by SCKM::new but defined nowhere in the source:
\* every point its own singleton cluster, whose center is the point itself
intial_result(given_data) == [i \in 1..Len(given_data) |-> Some(given_data[i].data)]

\* SCKM::new that builds the model with TaskState::pending
new_starts_pending(given_data) ==
  [data |-> given_data,
   result |-> intial_result(given_data),
   num_centers |-> JobU8_make,
   trained |-> "pending"]

new(given_data) ==
  [data |-> given_data,
   result |-> intial_result(given_data),
   num_centers |-> JobU8_make,
   trained |-> "ready"]

\* ------------------------------------------------------ training iteration
\* fn training_iteration(&mut self, eta) { /* TODO */ }: the body is empty
training_iteration(self, eta) == self

\* --------------------------------------------------- center-based oracle
RECURSIVE HammingFrom(_, _, _)
HammingFrom(x, y, i) ==
  IF i > Len(x) THEN 0
  ELSE (IF x[i] # y[i] THEN 1 ELSE 0) + HammingFrom(x, y, i + 1)
HammingDistance(x, y) == HammingFrom(x, y, 1)

\* index of the nearest center, ties broken by the lowest index
NearestCenter(v, centers) ==
  CHOOSE i \in 1..Len(centers) :
    \A j \in 1..Len(centers) :
      \/ HammingDistance(v, centers[i].point) < HammingDistance(v, centers[j].point)
      \/ /\ HammingDistance(v, centers[i].point) = HammingDistance(v, centers[j].point)
         /\ i <= j

CenterBasedClustering_same_cluster(a, b, centers) ==
  IF \/ Len(centers) = 0
     \/ \E i \in 1..Len(centers) :
          Len(a) # Len(centers[i].point) \/ Len(b) # Len(centers[i].point)
  THEN None
  ELSE IF NearestCenter(a, centers) = NearestCenter(b, centers)
       THEN Some("linked")
       ELSE Some("seperate")

\* SCKM::same_cluster as a function of the model: unwrap every center, then
\* ask the oracle; self.trained is not read
same_cluster(self, a, b) ==
  IF \E i \in 1..Len(self.result) : self.result[i] = None
  THEN "panic"
  ELSE CenterBasedClustering_same_cluster(a, b,
         [i \in 1..Len(self.result) |-> unwrap(self.result[i])])

\* ------------------------------------------------------------------ state
VARIABLES
  data,             \* SCKM.data
  result,           \* SCKM.result
  num_centers,      \* SCKM.num_centers
  trained,          \* SCKM.trained
  pc,               \* per caller: the statement it is at
  eta,              \* per caller: train's argument
  iter,             \* per caller: training_iteration calls of its train
  newdata,          \* per caller: update_data's argument
  new_SCKM_object,  \* per caller: update_data's local
  ret,              \* the call that returned last and what it returned
  lastQuery         \* the last same_cluster call made with no call in flight,
                    \* until the next call of train or update_data: its
                    \* arguments and verdict, whether it repeats the query
                    \* before it, and whether these queries come right
                    \* after a train that returned Some(Trained)

fields == <<data, result, num_centers, trained>>
vars == <<data, result, num_centers, trained, pc, eta, iter, newdata,
          new_SCKM_object, ret, lastQuery>>

\* the model as one value
SCKM == [data |-> data, result |-> result, num_centers |-> num_centers,
         trained |-> trained]

NoObject == <<>>
NoQuery == <<>>
NoReturn == [op |-> "none", val |-> None]

\* the model right after SCKM::new(given_data), nothing called yet
Constructed(given_data) ==
  /\ data = new(given_data).data
  /\ result = new(given_data).result
  /\ num_centers = new(given_data).num_centers
  /\ trained = new(given_data).trained
  /\ pc = [p \in Callers |-> "idle"]
  /\ eta = [p \in Callers |-> 0]
  /\ iter = [p \in Callers |-> 0]
  /\ newdata = [p \in Callers |-> <<>>]
  /\ new_SCKM_object = [p \in Callers |-> NoObject]
  /\ ret = NoReturn
  /\ lastQuery = NoQuery

Init == \E given_data \in Datasets : Constructed(given_data)
InitConc == \E given_data \in ConcDatasets : Constructed(given_data)

\* ------------------------------------------------------------------ train
\* train_check with the test `self.trained == TaskState::done`
train_check_rejects_done_only(p, e) ==
  /\ pc[p] = "idle"
  /\ IF trained = "done"
     THEN /\ ret' = [op |-> "train", val |-> None]
          /\ UNCHANGED <<pc, eta, iter>>
     ELSE /\ pc' = [pc EXCEPT ![p] = "train_set_pending"]
          /\ eta' = [eta EXCEPT ![p] = e]
          /\ iter' = [iter EXCEPT ![p] = 0]
          /\ UNCHANGED ret
  /\ lastQuery' = NoQuery
  /\ UNCHANGED <<fields, newdata, new_SCKM_object>>

\* lines 69-73: the call and the check of self.trained
train_check(p, e) ==
  /\ pc[p] = "idle"
  /\ IF trained # "ready"
     THEN /\ ret' = [op |-> "train", val |-> None]
          /\ UNCHANGED <<pc, eta, iter>>
     ELSE /\ pc' = [pc EXCEPT ![p] = "train_set_pending"]
          /\ eta' = [eta EXCEPT ![p] = e]
          /\ iter' = [iter EXCEPT ![p] = 0]
          /\ UNCHANGED ret
  /\ lastQuery' = NoQuery
  /\ UNCHANGED <<fields, newdata, new_SCKM_object>>

\* line 75
train_set_pending(p) ==
  /\ pc[p] = "train_set_pending"
  /\ trained' = "pending"
  /\ pc' = [pc EXCEPT ![p] = "train_reset_job"]
  /\ UNCHANGED <<data, result, num_centers, eta, iter, newdata,
                 new_SCKM_object, ret, lastQuery>>

\* lines 77-80
train_reset_job(p) ==
  /\ pc[p] = "train_reset_job"
  /\ num_centers' = [num |-> Some(0), job |-> "pending"]
  /\ pc' = [pc EXCEPT ![p] = "train_loop"]
  /\ UNCHANGED <<data, result, trained, eta, iter, newdata,
                 new_SCKM_object, ret, lastQuery>>

\* lines 82-89: one test of the loop condition, then either one call of
\* training_iteration or the return of Some(Trained)
train_loop(p) ==
  /\ pc[p] = "train_loop"
  /\ IF trained = "pending"
     THEN /\ data' = training_iteration(SCKM, eta[p]).data
          /\ result' = training_iteration(SCKM, eta[p]).result
          /\ num_centers' = training_iteration(SCKM, eta[p]).num_centers
          /\ trained' = training_iteration(SCKM, eta[p]).trained
          /\ iter' = [iter EXCEPT ![p] = IF @ < MaxIter THEN @ + 1 ELSE @]
          /\ UNCHANGED <<pc, eta, ret>>
     ELSE /\ pc' = [pc EXCEPT ![p] = "idle"]
          /\ ret' = [op |-> "train", val |-> Some(Trained)]
          /\ eta' = [eta EXCEPT ![p] = 0]
          /\ iter' = [iter EXCEPT ![p] = 0]
          /\ UNCHANGED fields
  /\ UNCHANGED <<newdata, new_SCKM_object, lastQuery>>

\* ----------------------------------------------------------- same_cluster
\* same_cluster_call that moves the centers out of self.result instead of
\* cloning them
same_cluster_call_drains_result(p, a, b) ==
  /\ pc[p] = "idle"
  /\ ret' = [op |-> "same_cluster", val |-> same_cluster(SCKM, a, b)]
  /\ lastQuery' = IF \A q \in Callers : pc[q] = "idle"
                  THEN <<[a |-> a, b |-> b, val |-> same_cluster(SCKM, a, b),
                          again |-> lastQuery # NoQuery /\ lastQuery[1].a = a
                                    /\ lastQuery[1].b = b,
                          afterTrain |-> IF lastQuery = NoQuery
                                         THEN ret = [op |-> "train", val |-> Some(Trained)]
                                         ELSE lastQuery[1].afterTrain]>>
                  ELSE NoQuery
  /\ result' = <<>>
  /\ UNCHANGED <<data, num_centers, trained, pc, eta, iter, newdata, new_SCKM_object>>

\* lines 93-104, a read of self
same_cluster_call(p, a, b) ==
  /\ pc[p] = "idle"
  /\ ret' = [op |-> "same_cluster", val |-> same_cluster(SCKM, a, b)]
  /\ lastQuery' = IF \A q \in Callers : pc[q] = "idle"
                  THEN <<[a |-> a, b |-> b, val |-> same_cluster(SCKM, a, b),
                          again |-> lastQuery # NoQuery /\ lastQuery[1].a = a
                                    /\ lastQuery[1].b = b,
                          afterTrain |-> IF lastQuery = NoQuery
                                         THEN ret = [op |-> "train", val |-> Some(Trained)]
                                         ELSE lastQuery[1].afterTrain]>>
                  ELSE NoQuery
  /\ UNCHANGED <<fields, pc, eta, iter, newdata, new_SCKM_object>>

\* ------------------------------------------------------------ update_data
\* line 107: the call
update_data_call(p, nd) ==
  /\ pc[p] = "idle"
  /\ pc' = [pc EXCEPT ![p] = "update_wait"]
  /\ newdata' = [newdata EXCEPT ![p] = nd]
  /\ lastQuery' = NoQuery
  /\ UNCHANGED <<fields, eta, iter, new_SCKM_object, ret>>

\* update_wait that tests the flag once and goes on whatever it reads
update_wait_once(p) ==
  /\ pc[p] = "update_wait"
  /\ pc' = [pc EXCEPT ![p] = "update_set_pending"]
  /\ UNCHANGED <<fields, eta, iter, newdata, new_SCKM_object, ret, lastQuery>>

\* line 109: one test of the busy-wait
update_wait(p) ==
  /\ pc[p] = "update_wait"
  /\ pc' = [pc EXCEPT ![p] = IF trained = "pending" THEN "update_wait"
                             ELSE "update_set_pending"]
  /\ UNCHANGED <<fields, eta, iter, newdata, new_SCKM_object, ret, lastQuery>>

\* line 111
update_set_pending(p) ==
  /\ pc[p] = "update_set_pending"
  /\ trained' = "pending"
  /\ pc' = [pc EXCEPT ![p] = "update_new"]
  /\ UNCHANGED <<data, result, num_centers, eta, iter, newdata,
                 new_SCKM_object, ret, lastQuery>>

\* line 113
update_new(p) ==
  /\ pc[p] = "update_new"
  /\ new_SCKM_object' = [new_SCKM_object EXCEPT ![p] = new(newdata[p])]
  /\ pc' = [pc EXCEPT ![p] = "update_copy_data"]
  /\ UNCHANGED <<fields, eta, iter, newdata, ret, lastQuery>>

\* line 115
update_copy_data(p) ==
  /\ pc[p] = "update_copy_data"
  /\ data' = new_SCKM_object[p].data
  /\ pc' = [pc EXCEPT ![p] = "update_copy_result"]
  /\ UNCHANGED <<result, num_centers, trained, eta, iter, newdata,
                 new_SCKM_object, ret, lastQuery>>

\* update_copy_result that passes on the num_centers of the new object too
update_copy_result_resets_job(p) ==
  /\ pc[p] = "update_copy_result"
  /\ result' = new_SCKM_object[p].result
  /\ num_centers' = new_SCKM_object[p].num_centers
  /\ pc' = [pc EXCEPT ![p] = "update_set_ready"]
  /\ UNCHANGED <<data, trained, eta, iter, newdata, new_SCKM_object, ret, lastQuery>>

\* update_copy_result without the write of line 117
update_copy_result_keeps_old(p) ==
  /\ pc[p] = "update_copy_result"
  /\ pc' = [pc EXCEPT ![p] = "update_set_ready"]
  /\ UNCHANGED <<fields, eta, iter, newdata, new_SCKM_object, ret, lastQuery>>

\* line 117
update_copy_result(p) ==
  /\ pc[p] = "update_copy_result"
  /\ result' = new_SCKM_object[p].result
  /\ pc' = [pc EXCEPT ![p] = "update_set_ready"]
  /\ UNCHANGED <<data, num_centers, trained, eta, iter, newdata,
                 new_SCKM_object, ret, lastQuery>>

\* update_set_ready that writes TaskState::done
update_set_ready_writes_done(p) ==
  /\ pc[p] = "update_set_ready"
  /\ trained' = "done"
  /\ pc' = [pc EXCEPT ![p] = "idle"]
  /\ newdata' = [newdata EXCEPT ![p] = <<>>]
  /\ new_SCKM_object' = [new_SCKM_object EXCEPT ![p] = NoObject]
  /\ ret' = [op |-> "update_data", val |-> None]
  /\ UNCHANGED <<data, result, num_centers, eta, iter, lastQuery>>

\* lines 119-121: the last write and the return; the argument and the local
\* are dropped
update_set_ready(p) ==
  /\ pc[p] = "update_set_ready"
  /\ trained' = "ready"
  /\ pc' = [pc EXCEPT ![p] = "idle"]
  /\ newdata' = [newdata EXCEPT ![p] = <<>>]
  /\ new_SCKM_object' = [new_SCKM_object EXCEPT ![p] = NoObject]
  /\ ret' = [op |-> "update_data", val |-> None]
  /\ UNCHANGED <<data, result, num_centers, eta, iter, lastQuery>>

\* --------------------------------------------------------- specifications
\* Spec: every call is made by the one owner of the model, so a call starts
\* only after the call before it has returned
Owner == "c1"

Next ==
  \/ \E e \in Etas : train_check(Owner, e)
  \/ train_set_pending(Owner)
  \/ train_reset_job(Owner)
  \/ train_loop(Owner)
  \/ \E a \in QueryVecs, b \in QueryVecs : same_cluster_call(Owner, a, b)
  \/ \E nd \in Datasets : update_data_call(Owner, nd)
  \/ update_wait(Owner)
  \/ update_set_pending(Owner)
  \/ update_new(Owner)
  \/ update_copy_data(Owner)
  \/ update_copy_result(Owner)
  \/ update_set_ready(Owner)

Spec == Init /\ [][Next]_vars

NextConc ==
  \/ \E p \in Callers, e \in Etas : train_check(p, e)
  \/ \E p \in Callers : train_set_pending(p)
  \/ \E p \in Callers : train_reset_job(p)
  \/ \E p \in Callers : train_loop(p)
  \/ \E p \in Callers, a \in QueryVecs, b \in QueryVecs : same_cluster_call(p, a, b)
  \/ \E p \in Callers, nd \in ConcDatasets : update_data_call(p, nd)
  \/ \E p \in Callers : update_wait(p)
  \/ \E p \in Callers : update_set_pending(p)
  \/ \E p \in Callers : update_new(p)
  \/ \E p \in Callers : update_copy_data(p)
  \/ \E p \in Callers : update_copy_result(p)
  \/ \E p \in Callers : update_set_ready(p)

\* SpecConc: the statements of two callers interleave
SpecConc == InitConc /\ [][NextConc]_vars

\* the statements inside a call of caller p: a thread that is inside a call
\* keeps running; whether it makes another call is up to it
CallerSteps(p) ==
  \/ train_set_pending(p)
  \/ train_reset_job(p)
  \/ train_loop(p)
  \/ update_wait(p)
  \/ update_set_pending(p)
  \/ update_new(p)
  \/ update_copy_data(p)
  \/ update_copy_result(p)
  \/ update_set_ready(p)

\* SpecConcFair: SpecConc with every caller that is inside a call scheduled
\* again and again
SpecConcFair == SpecConc /\ \A p \in Callers : WF_vars(CallerSteps(p))

\* ------------------------------------------------------------------ claims
TrainPcs == {"train_set_pending", "train_reset_job", "train_loop"}
RebuildPcs == {"update_new", "update_copy_data", "update_copy_result",
               "update_set_ready"}
Verdicts == {Some(c) : c \in ConnectEnum}

\* C1: a train call made while trained is not ready returns None at once and
\* leaves data, result, num_centers and trained as they were
C1_TrainNotReadyReturnsNone ==
  [][\A p \in Callers, e \in Etas :
       (trained # "ready" /\ train_check(p, e))
         => /\ ret' = [op |-> "train", val |-> None]
            /\ pc'[p] = "idle"
            /\ UNCHANGED fields]_vars

\* a train call was turned down while another caller's training is pending
C1_Witness ==
  /\ ret = [op |-> "train", val |-> None]
  /\ trained = "pending"
  /\ \E p \in Callers : pc[p] = "train_loop"

\* C2: same_cluster returns a verdict only when trained is done; in state
\* ready or pending it returns None, and it never mutates the model
C2_SameClusterOnlyWhenDone ==
  [][\A p \in Callers, a \in QueryVecs, b \in QueryVecs :
       same_cluster_call(p, a, b)
         => /\ trained # "done" => ret'.val = None
            /\ ret'.val \in Verdicts => trained = "done"
            /\ UNCHANGED fields]_vars

\* C3: a train call that started in state ready calls training_iteration at
\* most eta times (once more to find the state done) and then returns
C3_TrainStopsWithinEta ==
  \A p \in Callers : pc[p] = "train_loop" => iter[p] <= eta[p] + 1

\* the number of non-empty centers of a result vector
NonEmptyCenters(r) == Cardinality({i \in 1..Len(r) : r[i] # None})

\* C4: whenever train returns Some(Trained), trained is done and num_centers
\* is a done job whose count is the number of non-empty centers
C4_TrainedMeansDone ==
  [][\A p \in Callers :
       (pc[p] = "train_loop" /\ pc'[p] = "idle")
         => /\ ret' = [op |-> "train", val |-> Some(Trained)]
            /\ trained' = "done"
            /\ num_centers' = [num |-> Some(NonEmptyCenters(result')), job |-> "done"]]_vars

\* C5: update_data leaves its wait only when trained is not pending, trained
\* is pending all through its rebuild, and when it returns trained is ready
\* and data is the dataset it was given
C5_UpdateDataRebuild ==
  [][\A p \in Callers :
       /\ (pc[p] = "update_wait" /\ pc'[p] = "update_set_pending")
            => trained # "pending"
       /\ pc'[p] \in RebuildPcs => trained' = "pending"
       /\ (pc[p] = "update_set_ready" /\ pc'[p] = "idle")
            => /\ trained' = "ready"
               /\ data' = newdata[p]
               /\ ret' = [op |-> "update_data", val |-> None]]_vars

\* the model of SCKM::new(D) once train has reached the statement `at`
FreshTrain(D, at) ==
  [data |-> new(D).data,
   result |-> new(D).result,
   num_centers |-> IF at = "train_loop"
                   THEN [num |-> Some(0), job |-> "pending"]
                   ELSE new(D).num_centers,
   trained |-> IF at = "train_set_pending" THEN new(D).trained ELSE "pending"]

C8_CountIffJobDone ==
  (num_centers.num # None) <=> (num_centers.job = "done")

\* C10: same_cluster leaves the model as it was, and asked the same question
\* twice in a row after a train that returned Some(Trained) it gives the same
\* answer twice
C10_SameClusterRepeatable ==
  [][\A p \in Callers, a \in QueryVecs, b \in QueryVecs :
       same_cluster_call(p, a, b)
         => /\ UNCHANGED fields
            /\ (lastQuery # NoQuery /\ lastQuery[1].a = a /\ lastQuery[1].b = b)
                 => ret'.val = lastQuery[1].val]_vars

\* the same question was asked twice in a row after a train that returned
\* Some(Trained), and got a verdict
C10_Witness ==
  /\ lastQuery # NoQuery
  /\ lastQuery[1].again
  /\ lastQuery[1].afterTrain
  /\ lastQuery[1].val \in Verdicts
  /\ ret = [op |-> "same_cluster", val |-> lastQuery[1].val]

\* C11: train(0) on a dataset of n > 0 points does no training work, ends in
\* state done with the singleton assignment kept and a cluster count of n:
\* after its first call of training_iteration the model is in that state
C11_TrainZeroKeepsSingletons ==
  \A p \in Callers :
    (pc[p] = "train_loop" /\ eta[p] = 0 /\ iter[p] >= 1 /\ Len(data) > 0)
      => /\ trained = "done"
         /\ result = intial_result(data)
         /\ num_centers = [num |-> Some(Len(data)), job |-> "done"]

\* C12: at most one caller at a time is past its check of self.trained and
\* before its return
Writing(p) == pc[p] \in TrainPcs \cup {"update_set_pending"} \cup RebuildPcs

C12_OneWriter ==
  \A p \in Callers, q \in Callers : (Writing(p) /\ Writing(q)) => p = q

\* C13: no same_cluster call gives a verdict while an update_data is in its
\* rebuild, that is while it holds trained pending or has replaced data and
\* not yet result
C13_NoVerdictFromMixedModel ==
  [][\A p \in Callers, a \in QueryVecs, b \in QueryVecs :
       (same_cluster_call(p, a, b) /\ ret'.val \in Verdicts)
         => \A q \in Callers : pc[q] \notin RebuildPcs]_vars

\* C14: update_data returns nothing but unit; it never leaves its wait in a
\* state that is pending, so it waits for ever if trained is pending for
\* ever; it does not wait for ever on a state that is not pending, and once
\* past its wait it returns
C14_UpdateDataWaits ==
  /\ [](ret.op = "update_data" => ret.val = None)
  /\ [][\A p \in Callers :
          (pc[p] = "update_wait" /\ trained = "pending")
            => pc'[p] = "update_wait"]_vars
  /\ \A p \in Callers :
       /\ []<>(pc[p] # "update_wait" \/ trained = "pending")
       /\ (pc[p] \in {"update_set_pending"} \cup RebuildPcs) ~> (pc[p] = "idle")

\* an update_data call spins on the flag while another caller's training,
\* which never ends, holds it pending
C14_Witness ==
  \E p \in Callers, q \in Callers :
    /\ pc[p] = "update_wait"
    /\ pc[q] = "train_loop"
    /\ iter[q] = MaxIter
    /\ trained = "pending"

\* the result value spec section 7 asks for when a vector has the wrong length
DimensionMismatch == "DimensionMismatch"

\* C16: same_cluster given a vector whose length is not the model's dimension
\* returns the explicit DimensionMismatch value
C16_DimensionMismatchExplicit ==
  [][\A p \in Callers, a \in QueryVecs, b \in QueryVecs :
       (same_cluster_call(p, a, b) /\ Len(result) > 0
          /\ (Len(a) # Dim \/ Len(b) # Dim))
         => ret'.val = DimensionMismatch]_vars

\* nothing has been called on the model since SCKM::new built it
Fresh == ret = NoReturn /\ \A p \in Callers : pc[p] = "idle"

C20_UpdateDataKeepsJob ==
  [][\A p \in Callers :
       (\/ \E nd \in ConcDatasets : update_data_call(p, nd)
        \/ update_wait(p)
        \/ update_set_pending(p)
        \/ update_new(p)
        \/ update_copy_data(p)
        \/ update_copy_result(p)
        \/ update_set_ready(p))
         => /\ UNCHANGED num_centers
            /\ UNCHANGED <<eta, iter>>
            /\ (pc[p] = "update_set_ready" => trained' = "ready")]_vars

\* train has returned, update_data returned after it, and the model is ready
\* with the count job of that train
C20_Witness ==
  /\ \A p \in Callers : pc[p] = "idle"
  /\ ret.op = "update_data"
  /\ trained = "ready"
  /\ num_centers = [num |-> Some(0), job |-> "pending"]

====
